---- MODULE Spec2Model ----
(***************************************************************************)
(* A model of the ComfyUI metadata extractor of src/image_parser.py:       *)
(* the rule catalog, the matcher, the operation evaluator, the link        *)
(* resolver resolve_bypasses and the extractor comfyui_get_data, the       *)
(* latter as a step machine over its local variables.                      *)
(*                                                                         *)
(* Python values are pairs <<tag, payload>>:                               *)
(*   <<"none", 0>>        None / JSON null                                 *)
(*   <<"str", s>>         a string                                         *)
(*   <<"int", n>>         an integer (naturals only here)                  *)
(*   <<"float", e>>       a float, payload in eighths (e/8, exact binary)  *)
(*   <<"list", items>>    a list, payload a sequence of values             *)
(*   <<"dict", pairs>>    a dict, payload a sequence of <<key, value>> in  *)
(*                        insertion order, keys strings and distinct       *)
(*   <<"raise", name>>    not a value: an exception travelling upwards     *)
(***************************************************************************)
EXTENDS Integers, Sequences, FiniteSets, TLC

VARIABLES
  image_info,             \* the argument of the running (or last) call
  pc,                     \* the position in comfyui_get_data
  prompt_graph,           \* its locals ...
  workflow_graph,
  target_node_instances,
  results_by_type,
  extracted_params,
  final,
  failure,                \* the step that raised into the except block, "" if none
  result,                 \* what the call gave its caller
  calls,                  \* the number of calls made
  returned,               \* the log of finished calls: [input, result, failure]
  images_data,            \* ImageBrowser: the image records of the grid
  image_widgets,          \* the widgets of the grid, by the path they show
  image_loader_thread,    \* the ImageLoader last started, 0 for None
  loading_columns,        \* _loading_columns
  loaders,                \* the ImageLoader threads created so far
  events,                 \* the signals queued for the main thread
  main,                   \* where the main thread is: "loop" or "wait"
  directory               \* the argument of the load_images in progress

locals == <<prompt_graph, workflow_graph, target_node_instances, results_by_type,
            extracted_params, final, failure>>

core == <<image_info, pc, locals, result, calls, returned>>

gui == <<images_data, image_widgets, image_loader_thread, loading_columns, loaders,
         events, main, directory>>

vars == <<core, gui>>

---------------------------------------------------------------------------
(* Python values *)

PyNone == <<"none", 0>>

StrV(s) == <<"str", s>>

IntV(n) == <<"int", n>>

FloatV(e) == <<"float", e>>

ListV(items) == <<"list", items>>

DictV(pairs) == <<"dict", pairs>>

Raise(name) == <<"raise", name>>

Tag(v) == v[1]

Val(v) == v[2]

IsRaise(v) == Tag(v) = "raise"

EmptyDict == DictV(<<>>)

\* bool(v): None, "", 0, 0.0, [] and {} are falsy
Truthy(v) ==
  CASE Tag(v) = "none" -> FALSE
    [] Tag(v) = "str" -> Val(v) # ""
    [] Tag(v) \in {"int", "float"} -> Val(v) # 0
    [] Tag(v) \in {"list", "dict"} -> Len(Val(v)) > 0

DictHas(d, k) == \E i \in 1..Len(Val(d)) : Val(d)[i][1] = k

DictGet(d, k) == Val(d)[CHOOSE i \in 1..Len(Val(d)) : Val(d)[i][1] = k][2]

\* d.get(k, default)
DictGetOr(d, k, default) == IF DictHas(d, k) THEN DictGet(d, k) ELSE default

\* d[k] = v : replaces in place when k is present, appends otherwise
DictSet(d, k, v) ==
  IF DictHas(d, k)
  THEN DictV([i \in 1..Len(Val(d)) |-> IF Val(d)[i][1] = k THEN <<k, v>> ELSE Val(d)[i]])
  ELSE DictV(Append(Val(d), <<k, v>>))

\* sub in s, for strings
Contains(s, sub) ==
  \E i \in 1..(Len(s) - Len(sub) + 1) : SubSeq(s, i, i + Len(sub) - 1) = sub

\* key in container, for a string key: "yes", "no", or "raise" (TypeError)
PyIn(key, container) ==
  CASE Tag(container) = "dict" -> IF DictHas(container, key) THEN "yes" ELSE "no"
    [] Tag(container) = "list" ->
         IF \E i \in 1..Len(Val(container)) : Val(container)[i] = StrV(key)
         THEN "yes" ELSE "no"
    [] Tag(container) = "str" -> IF Contains(Val(container), key) THEN "yes" ELSE "no"
    [] OTHER -> "raise"

\* container[key], for a string key known to be `in` it: only a dict can be
\* indexed by a string; a list or a string raises TypeError
PyIndex(container, key) ==
  IF Tag(container) = "dict" THEN DictGet(container, key) ELSE Raise("TypeError")

---------------------------------------------------------------------------
(* Text forms: str(), repr() and the format specs of the field templates *)

Digit(d) == SubSeq("0123456789", d + 1, d + 1)

RECURSIVE NatToStr(_)
NatToStr(n) == IF n < 10 THEN Digit(n) ELSE NatToStr(n \div 10) \o Digit(n % 10)

\* n written with exactly w digits (n < 10^w)
RECURSIVE Padded(_, _)
Padded(n, w) == IF w = 0 THEN "" ELSE Padded(n \div 10, w - 1) \o Digit(n % 10)

\* repr of the float e/8: the exact decimal expansion, trailing zeros removed,
\* one decimal digit at least
FloatRepr(e) ==
  LET th == (e % 8) * 125
      frac == IF th % 100 = 0 THEN Padded(th \div 100, 1)
              ELSE IF th % 10 = 0 THEN Padded(th \div 10, 2)
              ELSE Padded(th, 3)
  IN NatToStr(e \div 8) \o "." \o frac

Pow10(p) == IF p = 1 THEN 10 ELSE 100

\* format(x, ".pf") of x = th/1000, p in {1, 2}: correctly rounded, ties to even
Fixed(th, p) ==
  LET unit == 1000 \div Pow10(p)
      q == th \div unit
      r == th % unit
      up == 2 * r > unit \/ (2 * r = unit /\ q % 2 = 1)
      m == IF up THEN q + 1 ELSE q
  IN NatToStr(m \div Pow10(p)) \o "." \o Padded(m % Pow10(p), p)

RECURSIVE PyRepr(_)
RECURSIVE ReprItems(_, _)
RECURSIVE ReprPairs(_, _)
\* str(v) of a value other than a string; repr(v) of a string puts it in quotes
PyRepr(v) ==
  CASE Tag(v) = "none" -> "None"
    [] Tag(v) = "str" -> "'" \o Val(v) \o "'"
    [] Tag(v) = "int" -> NatToStr(Val(v))
    [] Tag(v) = "float" -> FloatRepr(Val(v))
    [] Tag(v) = "list" -> "[" \o ReprItems(Val(v), 1) \o "]"
    [] Tag(v) = "dict" -> "{" \o ReprPairs(Val(v), 1) \o "}"

ReprItems(items, i) ==
  IF i > Len(items) THEN ""
  ELSE PyRepr(items[i]) \o (IF i < Len(items) THEN ", " ELSE "") \o ReprItems(items, i + 1)

ReprPairs(pairs, i) ==
  IF i > Len(pairs) THEN ""
  ELSE "'" \o pairs[i][1] \o "': " \o PyRepr(pairs[i][2])
       \o (IF i < Len(pairs) THEN ", " ELSE "") \o ReprPairs(pairs, i + 1)

\* str(v)
PyStr(v) == IF Tag(v) = "str" THEN Val(v) ELSE PyRepr(v)

\* format(v, spec) as str.format applies it to one replacement field:
\* "" is str(v); ".1f"/".2f" accept numbers only (ValueError for a string,
\* TypeError for None, a list or a dict)
FormatValue(v, spec) ==
  IF spec = "" THEN StrV(PyStr(v))
  ELSE LET p == IF spec = ".1f" THEN 1 ELSE 2 IN
       CASE Tag(v) = "int" -> StrV(Fixed(Val(v) * 1000, p))
         [] Tag(v) = "float" -> StrV(Fixed(Val(v) * 125, p))
         [] Tag(v) = "str" -> Raise("ValueError")
         [] OTHER -> Raise("TypeError")

\* A template is a sequence of parts: <<"lit", text>> or <<"fld", name, spec>>.
\* template.format(**args): KeyError when a field is not a key of args.
FormatPart(part, args) ==
  IF part[1] = "lit" THEN StrV(part[2])
  ELSE IF ~DictHas(args, part[2]) THEN Raise("KeyError")
  ELSE FormatValue(DictGet(args, part[2]), part[3])

\* the text of a part followed by the text of the parts after it, the first
\* exception on the way instead
Joined(head, rest) ==
  IF IsRaise(head) THEN head
  ELSE IF IsRaise(rest) THEN rest
  ELSE StrV(Val(head) \o Val(rest))

RECURSIVE FormatFrom(_, _, _)
FormatFrom(template, args, i) ==
  IF i > Len(template) THEN StrV("")
  ELSE Joined(FormatPart(template[i], args), FormatFrom(template, args, i + 1))

StrFormat(template, args) == FormatFrom(template, args, 1)

\* the template's own text, as written in the source
RECURSIVE TemplateText(_, _)
TemplateText(template, i) ==
  IF i > Len(template) THEN ""
  ELSE (IF template[i][1] = "lit" THEN template[i][2]
        ELSE "{" \o template[i][2]
             \o (IF template[i][3] = "" THEN "" ELSE ":" \o template[i][3]) \o "}")
       \o TemplateText(template, i + 1)

Lit(text) == <<"lit", text>>

Fld(name) == <<"fld", name, "">>

FldSpec(name, spec) == <<"fld", name, spec>>

---------------------------------------------------------------------------
(* The rule catalog *)

COMFY_METADATA_PROPAGATE_NONE == TRUE

AnyOf(names) == <<"op", [operation_type |-> "any_of_inputs", operation_input |-> names]>>

FormatOp(keys, template) ==
  <<"op", [operation_type |-> "format", keys_to_use |-> keys, operation_input |-> template]>>

comfy_nodes_propagation_data == <<
  [class_type |-> StrV("TagSeparator"),
   mapping |-> (0 :> StrV("pos_prompt") @@ 1 :> StrV("neg_prompt"))],
  [class_type |-> AnyOf(<<"ModelSamplingWaifuDiffusionV", "Mahiro", "ModelSamplingFlux",
                          "IPAdapterUnifiedLoader", "IPAdapterAdvanced", "IPAdapter",
                          "ApplyFluxIPAdapter", "ApplyAdvancedFluxIPAdapter",
                          "IPAdapterAdvanced">>),
   mapping |-> (0 :> StrV("model"))],
  [class_type |-> AnyOf(<<"ModelMergeSimple", "ModelMergeAdd", "ModelMergeSubstract">>),
   mapping |-> (0 :> FormatOp(<<"model1", "model2">>,
                              <<Fld("model1"), Lit(" [+] "), Fld("model2")>>))],
  [class_type |-> AnyOf(<<"CheckpointLoaderSimple", "Checkpoint Loader">>),
   mapping |-> (0 :> StrV("ckpt_name"))],
  [class_type |-> AnyOf(<<"UnetLoaderGGUF", "UNETLoader", "UnetLoaderGGUFAdvanced">>),
   mapping |-> (0 :> StrV("unet_name"))],
  [class_type |-> StrV("CLIPTextEncode"),
   mapping |-> (0 :> StrV("text") @@ 1 :> StrV("clip"))],
  [class_type |-> StrV("Seed"), mapping |-> (0 :> StrV("seed"))],
  [class_type |-> StrV("KSampler"), mapping |-> (0 :> StrV("latent_image"))],
  [class_type |-> StrV("VAEEncode"), mapping |-> (0 :> StrV("pixels"))],
  [class_type |-> StrV("LatentBlend"), mapping |-> (0 :> StrV("samples1"))],
  [class_type |-> StrV("VAEDecode"), mapping |-> (0 :> StrV("samples"))],
  [class_type |-> StrV("ImageBlend"), mapping |-> (0 :> StrV("image1"))],
  [class_type |-> AnyOf(<<"ImageScaleBy", "ImageUpscaleWithModel">>),
   mapping |-> (0 :> StrV("image"))],
  [class_type |-> StrV("EmptyLatentImage"),
   mapping |-> (0 :> FormatOp(<<"width", "height">>,
                              <<Fld("width"), Lit(" x "), Fld("height")>>))],
  [class_type |-> StrV("LoraLoader"),
   mapping |-> (0 :> FormatOp(<<"model", "lora_name", "strength_model">>,
                              <<Fld("model")>>))],
  [class_type |-> StrV("CLIPTextEncodeSDXL"), mapping |-> (0 :> StrV("text_g"))]
>>

target_comfy_nodes == <<
  [class_type |-> AnyOf(<<"KSampler", "KSampler (WAS)">>),
   inputs |-> <<"model", "positive", "negative", "latent_image", "sampler_name",
                "scheduler", "cfg", "steps", "seed", "denoise">>],
  [class_type |-> AnyOf(<<"KSamplerAdvanced">>),
   inputs |-> <<"model", "positive", "negative", "latent_image", "sampler_name",
                "scheduler", "cfg", "steps", "noise_seed">>],
  [class_type |-> StrV("LoraLoader"), inputs |-> <<"lora_name", "strength_model">>]
>>

\* field types in the dict's order, each with its templates
format_of_comfy_fields_to_types == <<
  <<"models", << <<Fld("model")>> >> >>,
  <<"pos_prompts", << <<Fld("positive")>> >> >>,
  <<"neg_prompts", << <<Fld("negative")>> >> >>,
  <<"img_gen_sizes", << <<Fld("latent_image")>> >> >>,
  <<"seeds", << <<Fld("seed")>>, <<Fld("noise_seed")>> >> >>,
  <<"steps", << <<Fld("steps")>> >> >>,
  <<"cfg", << <<FldSpec("cfg", ".1f")>> >> >>,
  <<"sampler_name", << <<Fld("sampler_name")>> >> >>,
  <<"scheduler", << <<Fld("scheduler")>> >> >>,
  <<"denoise", << <<FldSpec("denoise", ".2f")>> >> >>,
  <<"loras", << <<Lit("<"), Fld("lora_name"), Lit("> (Strength: "),
                  FldSpec("strength_model", ".2f"), Lit(")")>> >> >>
>>

\* every field type of format_of_comfy_fields_to_types has a pretty name, so
\* the .get() fallback (the humanized key) is never taken
comfy_fields_pretty_names ==
  [field_type \in {"models", "pos_prompts", "neg_prompts", "img_gen_sizes", "seeds",
                   "loras", "steps", "cfg", "sampler_name", "scheduler", "denoise"} |->
     CASE field_type = "models" -> "Model"
       [] field_type = "pos_prompts" -> "Prompt"
       [] field_type = "neg_prompts" -> "Negative Prompt"
       [] field_type = "img_gen_sizes" -> "Size"
       [] field_type = "seeds" -> "Seed"
       [] field_type = "loras" -> "LoRA"
       [] field_type = "steps" -> "Steps"
       [] field_type = "cfg" -> "CFG Scale"
       [] field_type = "sampler_name" -> "Sampler"
       [] field_type = "scheduler" -> "Scheduler"
       [] field_type = "denoise" -> "Denoise"]

---------------------------------------------------------------------------
(* Matcher and operation evaluator *)

SeqHas(seq, x) == \E i \in 1..Len(seq) : seq[i] = x

\* what the "format" operation returns: the text, or the template as it is
\* when formatting raised KeyError
FormattedOr(formatted, template) ==
  IF formatted = Raise("KeyError") THEN StrV(TemplateText(template, 1)) ELSE formatted

\* the arguments of the "format" operation: the keys of keys_to_use, a key
\* that input_object lacks standing for itself in braces
FormatArgs(keys_to_use, input_object) ==
  DictV([i \in 1..Len(keys_to_use) |->
           <<keys_to_use[i],
             DictGetOr(input_object, keys_to_use[i], StrV("{" \o keys_to_use[i] \o "}"))>>])

\* "any_of_inputs": is input_object one of the listed strings (a Boolean);
\* "format": the template filled from the dict input_object.
\* ("caseless_contains" is used by no rule of the catalog.)
custom_operation(operation_data, input_object) ==
  CASE operation_data.operation_type = "any_of_inputs" ->
         Tag(input_object) = "str" /\ SeqHas(operation_data.operation_input, Val(input_object))
    [] operation_data.operation_type = "format" ->
         FormattedOr(StrFormat(operation_data.operation_input,
                               FormatArgs(operation_data.keys_to_use, input_object)),
                     operation_data.operation_input)
    [] OTHER -> PyNone

\* ClassTypeMatches with the result of a custom operation tested against None
\* instead of for truth: "any_of_inputs" gives False, never None
ClassTypeMatchesNotNone(class_type_def, node_type) ==
  CASE Tag(class_type_def) = "str" -> class_type_def = node_type
    [] Tag(class_type_def) = "op" -> TRUE
    [] OTHER -> FALSE

\* does the rule's class_type accept node_type
ClassTypeMatches(class_type_def, node_type) ==
  CASE Tag(class_type_def) = "str" -> class_type_def = node_type
    [] Tag(class_type_def) = "op" -> custom_operation(Val(class_type_def), node_type)
    [] OTHER -> FALSE

\* the loop of resolve_class_type from rule i on
RECURSIVE first_match(_, _, _)
first_match(node_type, list_of_formats, i) ==
  IF i > Len(list_of_formats) THEN 0
  ELSE IF ClassTypeMatches(list_of_formats[i].class_type, node_type) THEN i
  ELSE first_match(node_type, list_of_formats, i + 1)

\* the index of the first rule of list_of_formats that accepts node_type,
\* 0 for None
resolve_class_type(node_type, list_of_formats) == first_match(node_type, list_of_formats, 1)

\* is_comfy_link with the two isinstance tests on the wrong elements
is_comfy_link_swapped(obj) ==
  /\ Tag(obj) = "list"
  /\ Len(Val(obj)) = 2
  /\ Tag(Val(obj)[1]) = "int"
  /\ Tag(Val(obj)[2]) = "str"

is_comfy_link(obj) ==
  /\ Tag(obj) = "list"
  /\ Len(Val(obj)) = 2
  /\ Tag(Val(obj)[1]) = "str"
  /\ Tag(Val(obj)[2]) = "int"

---------------------------------------------------------------------------
(* Link resolver *)

\* The interpreter's recursion limit, in frames of resolve_bypasses: a call
\* deeper than this raises RecursionError.
RecursionLimit == 8

RECURSIVE resolve_frame(_, _, _)
RECURSIVE resolve_keys(_, _, _, _, _, _)
RECURSIVE follow_input(_, _, _, _)

\* follow_input returning the node's input as it is, the recursive call left out
follow_input_once(inputs, input_key_to_follow, workflow_data, depth) ==
  CASE PyIn(input_key_to_follow, inputs) = "raise" -> Raise("TypeError")
    [] PyIn(input_key_to_follow, inputs) = "no" -> PyNone
    [] PyIn(input_key_to_follow, inputs) = "yes" -> PyIndex(inputs, input_key_to_follow)

\* lines 324-330, a simple key mapping: the node's input of that name,
\* resolved in turn
follow_input(inputs, input_key_to_follow, workflow_data, depth) ==
  CASE PyIn(input_key_to_follow, inputs) = "raise" -> Raise("TypeError")
    [] PyIn(input_key_to_follow, inputs) = "no" -> PyNone
    [] PyIn(input_key_to_follow, inputs) = "yes" ->
         IF IsRaise(PyIndex(inputs, input_key_to_follow))
         THEN PyIndex(inputs, input_key_to_follow)
         ELSE resolve_frame(PyIndex(inputs, input_key_to_follow), workflow_data, depth + 1)

\* keep_resolved with a null value always replaced by the placeholder, as
\* with COMFY_METADATA_PROPAGATE_NONE off
keep_resolved_placeholder(resolved_value, inputs, keys_to_use, i, resolved_keys, workflow_data, depth) ==
  IF IsRaise(resolved_value) THEN resolved_value
  ELSE resolve_keys(inputs, keys_to_use, i + 1,
                    DictSet(resolved_keys, keys_to_use[i],
                            IF Tag(resolved_value) = "none"
                            THEN StrV("{" \o keys_to_use[i] \o "}")
                            ELSE resolved_value),
                    workflow_data, depth)

\* lines 348-350: what the loop over keys_to_use does with the resolved value
\* of key i
keep_resolved(resolved_value, inputs, keys_to_use, i, resolved_keys, workflow_data, depth) ==
  IF IsRaise(resolved_value) THEN resolved_value
  ELSE IF COMFY_METADATA_PROPAGATE_NONE /\ Tag(resolved_value) = "none" THEN PyNone
  ELSE resolve_keys(inputs, keys_to_use, i + 1,
                    DictSet(resolved_keys, keys_to_use[i],
                            IF Tag(resolved_value) = "none"
                            THEN StrV("{" \o keys_to_use[i] \o "}")
                            ELSE resolved_value),
                    workflow_data, depth)

\* lines 339-350, the loop over keys_to_use of a formatting rule, from key i
\* on, resolved_keys holding the keys before i: the dict of resolved keys,
\* None when a key is missing or resolves to None, or the exception raised
resolve_keys(inputs, keys_to_use, i, resolved_keys, workflow_data, depth) ==
  IF i > Len(keys_to_use) THEN resolved_keys
  ELSE CASE PyIn(keys_to_use[i], inputs) = "raise" -> Raise("TypeError")
         [] PyIn(keys_to_use[i], inputs) = "no" ->
              IF COMFY_METADATA_PROPAGATE_NONE THEN PyNone
              ELSE resolve_keys(inputs, keys_to_use, i + 1,
                                DictSet(resolved_keys, keys_to_use[i],
                                        StrV("{" \o keys_to_use[i] \o "}")),
                                workflow_data, depth)
         [] PyIn(keys_to_use[i], inputs) = "yes" ->
              keep_resolved(IF IsRaise(PyIndex(inputs, keys_to_use[i]))
                            THEN PyIndex(inputs, keys_to_use[i])
                            ELSE resolve_frame(PyIndex(inputs, keys_to_use[i]),
                                               workflow_data, depth + 1),
                            inputs, keys_to_use, i, resolved_keys, workflow_data, depth)

\* lines 352-353: the formatting operation on the resolved keys, unless the
\* loop stopped
format_resolved(resolved_keys, operation_data) ==
  IF IsRaise(resolved_keys) \/ Tag(resolved_keys) = "none" THEN resolved_keys
  ELSE custom_operation(operation_data, resolved_keys)

\* lines 322-357: the rule of the slot applied to the node's inputs
apply_mapping(mapping_result, inputs, workflow_data, depth) ==
  IF Tag(mapping_result) = "str"
  THEN follow_input(inputs, Val(mapping_result), workflow_data, depth)
  ELSE IF Tag(mapping_result) = "op"
  THEN IF Len(Val(mapping_result).keys_to_use) = 0 THEN PyNone
       ELSE format_resolved(resolve_keys(inputs, Val(mapping_result).keys_to_use, 1,
                                         EmptyDict, workflow_data, depth),
                            Val(mapping_result))
  ELSE PyNone

\* lines 309-320: rule is the propagation rule of the node's type, 0 for none
apply_rule(rule, linked_node, linked_node_input_id, workflow_data, depth) ==
  IF rule = 0 THEN PyNone
  ELSE IF linked_node_input_id \notin DOMAIN comfy_nodes_propagation_data[rule].mapping
  THEN PyNone
  ELSE apply_mapping(comfy_nodes_propagation_data[rule].mapping[linked_node_input_id],
                     DictGetOr(linked_node, "inputs", EmptyDict), workflow_data, depth)

\* line 306, on the value linked_node['class_type'] gave
resolve_typed(linked_node_type, linked_node, linked_node_input_id, workflow_data, depth) ==
  IF IsRaise(linked_node_type) THEN linked_node_type
  ELSE apply_rule(resolve_class_type(linked_node_type, comfy_nodes_propagation_data),
                  linked_node, linked_node_input_id, workflow_data, depth)

\* lines 301-304: `not linked_node or 'class_type' not in linked_node`
has_no_type(linked_node) ==
  IF ~Truthy(linked_node) THEN "yes"
  ELSE CASE PyIn("class_type", linked_node) = "raise" -> "raise"
         [] PyIn("class_type", linked_node) = "no" -> "yes"
         [] PyIn("class_type", linked_node) = "yes" -> "no"

resolve_node(linked_node, linked_node_id, linked_node_input_id, workflow_data, depth) ==
  CASE has_no_type(linked_node) = "raise" -> Raise("TypeError")
    [] has_no_type(linked_node) = "yes" -> StrV("Error: Invalid node " \o linked_node_id)
    [] has_no_type(linked_node) = "no" ->
         resolve_typed(PyIndex(linked_node, "class_type"), linked_node,
                       linked_node_input_id, workflow_data, depth)

\* resolve_link reached through a wrapper that takes a frame of its own
resolve_link_wrapped(linked_node_id, linked_node_input_id, workflow_data, depth) ==
  IF ~DictHas(workflow_data, linked_node_id)
  THEN StrV("Error: Missing node " \o linked_node_id)
  ELSE resolve_node(DictGet(workflow_data, linked_node_id), linked_node_id,
                    linked_node_input_id, workflow_data, depth + 1)

\* lines 293-299
resolve_link(linked_node_id, linked_node_input_id, workflow_data, depth) ==
  IF ~DictHas(workflow_data, linked_node_id)
  THEN StrV("Error: Missing node " \o linked_node_id)
  ELSE resolve_node(DictGet(workflow_data, linked_node_id), linked_node_id,
                    linked_node_input_id, workflow_data, depth)

\* resolve_frame with a depth guard that gives up with None
resolve_frame_guarded(comfy_link, workflow_data, depth) ==
  IF depth > RecursionLimit THEN PyNone
  ELSE IF Tag(comfy_link) = "none" THEN PyNone
  ELSE IF ~is_comfy_link(comfy_link) THEN comfy_link
  ELSE resolve_link(Val(Val(comfy_link)[1]), Val(Val(comfy_link)[2]), workflow_data, depth)

\* resolve_bypasses in its depth-th frame
resolve_frame(comfy_link, workflow_data, depth) ==
  IF depth > RecursionLimit THEN Raise("RecursionError")
  ELSE IF Tag(comfy_link) = "none" THEN PyNone
  ELSE IF ~is_comfy_link(comfy_link) THEN comfy_link
  ELSE resolve_link(Val(Val(comfy_link)[1]), Val(Val(comfy_link)[2]), workflow_data, depth)

resolve_bypasses(comfy_link, workflow_data) == resolve_frame(comfy_link, workflow_data, 1)

---------------------------------------------------------------------------
(* Extractor: the helpers of comfyui_get_data's steps *)

\* A text field of image_info is <<kind, doc>>:
\*   "absent"    the key is missing (get returns None)
\*   "nonstr"    the value is not a string
\*   "nobrace"   a string that is empty or does not start with "{" once stripped
\*   "badjson"   starts with "{", json.loads raises JSONDecodeError
\*   "deepjson"  starts with "{", nested deeper than the interpreter's recursion
\*               limit: json.loads raises RecursionError
\*   "json"      starts with "{" and parses to the dict doc
Absent == <<"absent", 0>>

NonStr == <<"nonstr", 0>>

NoBrace == <<"nobrace", 0>>

BadJson == <<"badjson", 0>>

DeepJson == <<"deepjson", 0>>

Json(doc) == <<"json", doc>>

\* the guard before json.loads: a non-empty str whose stripped text starts with "{"
LooksLikeObject(field) == field[1] \in {"badjson", "deepjson", "json"}

\* the executable graph of a parsed prompt document: the dict under its
\* "prompt" key when that is a dict, the document itself otherwise
unwrap_prompt(data) ==
  IF DictHas(data, "prompt") /\ Tag(DictGet(data, "prompt")) = "dict"
  THEN DictGet(data, "prompt")
  ELSE data

IsTargetNode(pair) ==
  /\ Tag(pair[2]) = "dict"
  /\ DictHas(pair[2], "class_type")
  /\ resolve_class_type(DictGet(pair[2], "class_type"), target_comfy_nodes) # 0

\* the target nodes of node_dict, in its order, nothing resolved yet
find_targets(node_dict) ==
  LET found == SelectSeq(Val(node_dict), IsTargetNode)
  IN [i \in 1..Len(found) |->
        [node_id |-> found[i][1],
         details |-> found[i][2],
         required_inputs |->
           target_comfy_nodes[resolve_class_type(DictGet(found[i][2], "class_type"),
                                                 target_comfy_nodes)].inputs,
         resolved_params |-> EmptyDict]]

RECURSIVE resolve_params(_, _, _, _, _)

\* line 416, on the value resolve_bypasses gave for input i
store_resolved(resolved_value, node_inputs, required_inputs, i, resolved_params, node_dict) ==
  IF IsRaise(resolved_value) THEN <<resolved_params, TRUE>>
  ELSE resolve_params(node_inputs, required_inputs, i + 1,
                      DictSet(resolved_params, required_inputs[i], resolved_value),
                      node_dict)

\* lines 413-416, the loop over one node's required inputs from input i on:
\* <<resolved_params, raised>>
resolve_params(node_inputs, required_inputs, i, resolved_params, node_dict) ==
  IF i > Len(required_inputs) THEN <<resolved_params, FALSE>>
  ELSE CASE PyIn(required_inputs[i], node_inputs) = "raise" -> <<resolved_params, TRUE>>
         [] PyIn(required_inputs[i], node_inputs) = "no" ->
              resolve_params(node_inputs, required_inputs, i + 1, resolved_params, node_dict)
         [] PyIn(required_inputs[i], node_inputs) = "yes" ->
              store_resolved(IF IsRaise(PyIndex(node_inputs, required_inputs[i]))
                             THEN PyIndex(node_inputs, required_inputs[i])
                             ELSE resolve_bypasses(PyIndex(node_inputs, required_inputs[i]),
                                                   node_dict),
                             node_inputs, required_inputs, i, resolved_params, node_dict)

RECURSIVE resolve_targets(_, _, _)

\* next_target with the resolved values stored in the node's own inputs as
\* well, the node being the object of the graph that details refers to
next_target_in_place(got, instances, n, node_dict) ==
  IF got[2] THEN <<[instances EXCEPT ![n].resolved_params = got[1]], TRUE>>
  ELSE resolve_targets(
         [instances EXCEPT
            ![n].resolved_params = got[1],
            ![n].details = DictSet(instances[n].details, "inputs", got[1])],
         n + 1, node_dict)

\* node n done, got being <<its resolved_params, raised>>
next_target(got, instances, n, node_dict) ==
  IF got[2] THEN <<[instances EXCEPT ![n].resolved_params = got[1]], TRUE>>
  ELSE resolve_targets([instances EXCEPT ![n].resolved_params = got[1]], n + 1, node_dict)

\* lines 410-416, the loop over the target nodes from node n on:
\* <<instances, raised>>
resolve_targets(instances, n, node_dict) ==
  IF n > Len(instances) THEN <<instances, FALSE>>
  ELSE next_target(resolve_params(DictGetOr(instances[n].details, "inputs", EmptyDict),
                                  instances[n].required_inputs, 1,
                                  instances[n].resolved_params, node_dict),
                   instances, n, node_dict)

\* one template tried on one node: appended unless it does not apply
\* (KeyError, TypeError, ValueError) or is already listed
\* add_value without the test `formatted_value not in results_by_type[field_type]`
add_value_keep_all(values, formatted_value) ==
  IF IsRaise(formatted_value)
  THEN values
  ELSE Append(values, Val(formatted_value))

add_value(values, formatted_value) ==
  IF IsRaise(formatted_value) \/ SeqHas(values, Val(formatted_value))
  THEN values
  ELSE Append(values, Val(formatted_value))

add_formatted(values, format_str, resolved_params) ==
  add_value(values, StrFormat(format_str, resolved_params))

\* the values of one field type: its templates tried on every node, from
\* node n and template t on
RECURSIVE field_values(_, _, _, _, _)
field_values(format_strings, instances, n, t, values) ==
  IF n > Len(instances) THEN values
  ELSE IF t > Len(format_strings) THEN field_values(format_strings, instances, n + 1, 1, values)
  ELSE field_values(format_strings, instances, n, t + 1,
                    add_formatted(values, format_strings[t], instances[n].resolved_params))

FieldTypes == {format_of_comfy_fields_to_types[i][1] :
                 i \in 1..Len(format_of_comfy_fields_to_types)}

FormatStrings(field_type) ==
  format_of_comfy_fields_to_types[
    CHOOSE i \in 1..Len(format_of_comfy_fields_to_types) :
      format_of_comfy_fields_to_types[i][1] = field_type][2]

format_fields(instances) ==
  [field_type \in FieldTypes |->
     field_values(FormatStrings(field_type), instances, 1, 1, <<>>)]

\* the longest value stored as it is, and what is kept of a longer one
MaxValLen == 1023

KeepLen == 1020

\* truncate with the test `len(val_str) > 1024`
truncate_above_1024(val_str) ==
  IF Len(val_str) > MaxValLen + 1 THEN SubSeq(val_str, 1, KeepLen) \o "..." ELSE val_str

truncate(val_str) ==
  IF Len(val_str) > MaxValLen THEN SubSeq(val_str, 1, KeepLen) \o "..." ELSE val_str

pretty(field_type) == comfy_fields_pretty_names[field_type]

\* the extracted_params appended for the field types from the i-th on
RECURSIVE cap_values(_, _)
cap_values(by_type, i) ==
  IF i > Len(format_of_comfy_fields_to_types) THEN <<>>
  ELSE LET field_type == format_of_comfy_fields_to_types[i][1]
           values == by_type[field_type]
       IN [j \in 1..Len(values) |-> [type |-> pretty(field_type), val |-> truncate(values[j])]]
          \o cap_values(by_type, i + 1)

EmptyResult == [key \in {} |-> ""]

\* d[key] = val on a Result
SetKey(d, key, val) == [k \in DOMAIN d \cup {key} |-> IF k = key THEN val ELSE d[k]]

RECURSIVE build_final(_, _, _)
build_final(params, i, acc) ==
  IF i > Len(params) THEN acc
  ELSE build_final(params, i + 1, SetKey(acc, params[i].type, params[i].val))

\* the body of the overlay loop for one node of the UI graph:
\* <<the Result after it, raised>> (node.get on something that is no dict
\* raises AttributeError)
widget_value(node) ==
  IF /\ DictHas(node, "widgets_values")
     /\ Tag(DictGet(node, "widgets_values")) = "list"
     /\ Truthy(DictGet(node, "widgets_values"))
  THEN StrV(PyStr(Val(DictGet(node, "widgets_values"))[1]))
  ELSE PyNone

\* force_set with the test `value is not None` in place of `value`
force_set_not_none(d, title, value) ==
  IF Tag(value) = "none" THEN d
  ELSE IF title = StrV("positive") THEN SetKey(d, "Prompt", Val(value))
  ELSE IF title = StrV("negative") THEN SetKey(d, "Negative Prompt", Val(value))
  ELSE d

\* lines 451-455
force_set(d, title, value) ==
  IF ~Truthy(value) THEN d
  ELSE IF title = StrV("positive") THEN SetKey(d, "Prompt", Val(value))
  ELSE IF title = StrV("negative") THEN SetKey(d, "Negative Prompt", Val(value))
  ELSE d

\* overlay_node storing the value under the node's title itself
overlay_node_by_title(d, node) ==
  IF Tag(node) # "dict" THEN <<d, TRUE>>
  ELSE IF DictGetOr(node, "type", PyNone) # StrV("PrimitiveNode") THEN <<d, FALSE>>
  ELSE IF Truthy(widget_value(node)) /\ Tag(DictGetOr(node, "title", PyNone)) = "str"
  THEN <<SetKey(d, Val(DictGetOr(node, "title", PyNone)), Val(widget_value(node))), FALSE>>
  ELSE <<d, FALSE>>

overlay_node(d, node) ==
  IF Tag(node) # "dict" THEN <<d, TRUE>>
  ELSE IF DictGetOr(node, "type", PyNone) # StrV("PrimitiveNode") THEN <<d, FALSE>>
  ELSE <<force_set(d, DictGetOr(node, "title", PyNone), widget_value(node)), FALSE>>

\* the overlay loop from node i on: <<final, raised>>
RECURSIVE overlay_nodes(_, _, _)

next_node(got, nodes, i) == IF got[2] THEN got ELSE overlay_nodes(got[1], nodes, i + 1)

overlay_nodes(d, nodes, i) ==
  IF i > Len(nodes) THEN <<d, FALSE>>
  ELSE next_node(overlay_node(d, nodes[i]), nodes, i)

has_node_list(graph) ==
  Truthy(graph) /\ DictHas(graph, "nodes") /\ Tag(DictGet(graph, "nodes")) = "list"

---------------------------------------------------------------------------
(* Extractor: comfyui_get_data as a step machine *)

\* result: <<"pending", {}>> during a call, <<"returned", Result>> after a
\* return, <<"raised", {}>> when an exception left comfyui_get_data
Pending == <<"pending", EmptyResult>>

Returned(d) == <<"returned", d>>

Propagated == <<"raised", EmptyResult>>

Finished(res, why) == Append(returned, [input |-> image_info, result |-> res, failure |-> why])

\* ParsePrompt with no handler for JSONDecodeError: a text that does not
\* parse ends the call with the exception
ParsePromptUncaught ==
  /\ pc = "parse_prompt"
  /\ IF image_info.prompt[1] \in {"deepjson", "badjson"}
     THEN /\ pc' = "propagated"
          /\ result' = Propagated
          /\ returned' = Finished(Propagated, "parse_prompt")
          /\ UNCHANGED prompt_graph
     ELSE /\ pc' = "parse_workflow"
          /\ prompt_graph' = IF image_info.prompt[1] = "json"
                             THEN unwrap_prompt(image_info.prompt[2])
                             ELSE EmptyDict
          /\ UNCHANGED <<result, returned>>
  /\ UNCHANGED <<gui, image_info, workflow_graph, target_node_instances, results_by_type,
                 extracted_params, final, failure, calls>>

\* lines 372-382; an exception of json.loads other than JSONDecodeError is
\* outside every try block and leaves the function
ParsePrompt ==
  /\ pc = "parse_prompt"
  /\ IF image_info.prompt[1] = "deepjson"
     THEN /\ pc' = "propagated"
          /\ result' = Propagated
          /\ returned' = Finished(Propagated, "parse_prompt")
          /\ UNCHANGED prompt_graph
     ELSE /\ pc' = "parse_workflow"
          /\ prompt_graph' = IF image_info.prompt[1] = "json"
                             THEN unwrap_prompt(image_info.prompt[2])
                             ELSE EmptyDict
          /\ UNCHANGED <<result, returned>>
  /\ UNCHANGED <<gui, image_info, workflow_graph, target_node_instances, results_by_type,
                 extracted_params, final, failure, calls>>

\* lines 385-390
ParseWorkflow ==
  /\ pc = "parse_workflow"
  /\ IF image_info.workflow[1] = "deepjson"
     THEN /\ pc' = "propagated"
          /\ result' = Propagated
          /\ returned' = Finished(Propagated, "parse_workflow")
          /\ UNCHANGED workflow_graph
     ELSE /\ pc' = "check_empty"
          /\ workflow_graph' = IF image_info.workflow[1] = "json"
                               THEN image_info.workflow[2]
                               ELSE EmptyDict
          /\ UNCHANGED <<result, returned>>
  /\ UNCHANGED <<gui, image_info, prompt_graph, target_node_instances, results_by_type,
                 extracted_params, final, failure, calls>>

\* lines 392-397
CheckEmpty ==
  /\ pc = "check_empty"
  /\ IF ~Truthy(prompt_graph) /\ ~Truthy(workflow_graph)
     THEN /\ pc' = "done"
          /\ result' = Returned(EmptyResult)
          /\ returned' = Finished(Returned(EmptyResult), "")
     ELSE /\ pc' = IF Truthy(prompt_graph) THEN "find_targets" ELSE "build_final"
          /\ UNCHANGED <<result, returned>>
  /\ UNCHANGED <<gui, image_info, locals, calls>>

\* lines 398-408
FindTargets ==
  /\ pc = "find_targets"
  /\ target_node_instances' = find_targets(prompt_graph)
  /\ pc' = "resolve_inputs"
  /\ UNCHANGED <<gui, image_info, prompt_graph, workflow_graph, results_by_type,
                 extracted_params, final, failure, result, calls, returned>>

\* got being <<instances, raised>>
Resolved(got) ==
  /\ target_node_instances' = got[1]
  /\ pc' = IF got[2] THEN "except" ELSE "format_fields"
  /\ failure' = IF got[2] THEN "resolve_inputs" ELSE failure

\* lines 410-416
ResolveInputs ==
  /\ pc = "resolve_inputs"
  /\ Resolved(resolve_targets(target_node_instances, 1, prompt_graph))
  /\ UNCHANGED <<gui, image_info, prompt_graph, workflow_graph, results_by_type,
                 extracted_params, final, result, calls, returned>>

\* lines 418-428
FormatFields ==
  /\ pc = "format_fields"
  /\ results_by_type' = format_fields(target_node_instances)
  /\ pc' = "cap_values"
  /\ UNCHANGED <<gui, image_info, prompt_graph, workflow_graph, target_node_instances,
                 extracted_params, final, failure, result, calls, returned>>

\* lines 430-436
CapValues ==
  /\ pc = "cap_values"
  /\ extracted_params' = extracted_params \o cap_values(results_by_type, 1)
  /\ pc' = "build_final"
  /\ UNCHANGED <<gui, image_info, prompt_graph, workflow_graph, target_node_instances,
                 results_by_type, final, failure, result, calls, returned>>

\* lines 439-441
BuildFinal ==
  /\ pc = "build_final"
  /\ final' = build_final(extracted_params, 1, EmptyResult)
  /\ pc' = "overlay"
  /\ UNCHANGED <<gui, image_info, prompt_graph, workflow_graph, target_node_instances,
                 results_by_type, extracted_params, failure, result, calls, returned>>

\* got being <<final, raised>>
Overlaid(got) ==
  /\ final' = got[1]
  /\ pc' = IF got[2] THEN "except" ELSE "return"
  /\ failure' = IF got[2] THEN "overlay" ELSE failure

\* lines 443-455
Overlay ==
  /\ pc = "overlay"
  /\ Overlaid(IF has_node_list(workflow_graph)
              THEN overlay_nodes(final, Val(DictGet(workflow_graph, "nodes")), 1)
              ELSE <<final, FALSE>>)
  /\ UNCHANGED <<gui, image_info, prompt_graph, workflow_graph, target_node_instances,
                 results_by_type, extracted_params, result, calls, returned>>

\* line 457
Return ==
  /\ pc = "return"
  /\ result' = Returned(final)
  /\ returned' = Finished(Returned(final), "")
  /\ pc' = "done"
  /\ UNCHANGED <<gui, image_info, locals, calls>>

\* what the except block returns, d being the Result built so far
except_result(d) == EmptyResult

\* lines 459-463
Except ==
  /\ pc = "except"
  /\ result' = Returned(except_result(final))
  /\ returned' = Finished(Returned(except_result(final)), failure)
  /\ pc' = "done"
  /\ UNCHANGED <<gui, image_info, locals, calls>>

---------------------------------------------------------------------------
(* The metadata maps the calls are made on *)

MaxChain == 3

LenSlack == 3

MaxUiNodes == 2

MaxCalls == 3

Node(class_type, inputs) ==
  DictV(<< <<"inputs", DictV(inputs)>>, <<"class_type", StrV(class_type)>> >>)

Link(node_id, slot) == ListV(<<StrV(node_id), IntV(slot)>>)

\* n copies of the character c
RECURSIVE Rep(_, _)
Rep(c, n) ==
  IF n = 0 THEN ""
  ELSE IF n = 1 THEN c
  ELSE LET half == Rep(c, n \div 2)
       IN IF n % 2 = 0 THEN half \o half ELSE half \o half \o c

\* the example of the source's __main__ block (the "_meta" entries, which
\* nothing reads, left out)
RefGraph == DictV(<<
  <<"3", Node("KSampler", <<
           <<"seed", IntV(89898989)>>, <<"steps", IntV(20)>>, <<"cfg", FloatV(56)>>,
           <<"sampler_name", StrV("dpmpp_2m")>>, <<"scheduler", StrV("karras")>>,
           <<"denoise", FloatV(8)>>, <<"model", Link("4", 0)>>,
           <<"positive", Link("6", 0)>>, <<"negative", Link("7", 0)>>,
           <<"latent_image", Link("5", 0)>> >>)>>,
  <<"4", Node("CheckpointLoaderSimple",
              << <<"ckpt_name", StrV("sd_xl_base_1.0.safetensors")>> >>)>>,
  <<"5", Node("EmptyLatentImage",
              << <<"width", IntV(1024)>>, <<"height", IntV(1024)>>,
                 <<"batch_size", IntV(1)>> >>)>>,
  <<"6", Node("CLIPTextEncode",
              << <<"text", StrV("beautiful landscape painting, epic composition")>>,
                 <<"clip", Link("4", 1)>> >>)>>,
  <<"7", Node("CLIPTextEncode",
              << <<"text", StrV("ugly, deformed")>>, <<"clip", Link("4", 1)>> >>)>>
>>)

\* the API wrapper format, and a document whose "prompt" key holds no dict
WrappedRefGraph == DictV(<< <<"extra", IntV(1)>>, <<"prompt", RefGraph>> >>)

OddWrapGraph == DictV(<< <<"prompt", StrV("hi")>>,
                         <<"3", Node("KSampler", << <<"seed", IntV(1)>> >>)>> >>)

PassId(i) == "p" \o NatToStr(i)

\* a sampler whose model input reaches the value end through n pass-through
\* nodes p1 .. pn (n = 0: the input is end itself)
ChainGraph(n, end) == DictV(
  << <<"3", Node("KSampler", << <<"model", IF n = 0 THEN end ELSE Link(PassId(1), 0)>>,
                                <<"seed", IntV(7)>> >>)>> >>
  \o [i \in 1..n |->
        <<PassId(i), Node("ModelSamplingFlux",
                          << <<"model", IF i = n THEN end ELSE Link(PassId(i + 1), 0)>> >>)>>])

ChainLiterals == {StrV("base.safetensors"), IntV(5), FloatV(12)}

\* the same with pn linked back to p1
CycleGraph(n) == ChainGraph(n, Link(PassId(1), 0))

ProbeLens == {0, 1} \cup ((MaxValLen - LenSlack)..(MaxValLen + LenSlack))

\* a prompt text of len characters, given as a literal
LengthGraph(len) == DictV(<<
  <<"3", Node("KSampler", << <<"positive", StrV(Rep("a", len))>>, <<"steps", IntV(20)>> >>)>> >>)

\* a size text of len + 4 characters, made by the formatting rule
FormattedLengthGraph(len) == DictV(<<
  <<"3", Node("KSampler", << <<"latent_image", Link("5", 0)>> >>)>>,
  <<"5", Node("EmptyLatentImage",
              << <<"width", StrV(Rep("w", len))>>, <<"height", IntV(8)>> >>)>> >>)

TargetTypes == {"KSampler", "KSampler (WAS)", "KSamplerAdvanced", "LoraLoader"}

Missing == <<"missing", 0>>

\* the pair of an input, or nothing when the input is left out
Opt(key, v) == IF v = Missing THEN <<>> ELSE << <<key, v>> >>

ModelChoices ==
  {Missing, PyNone, StrV("lit.ckpt"), ListV(<<IntV(1), IntV(2)>>),
   Link("4", 0), Link("4", 1), Link("8", 0), Link("99", 0), Link("9", 0),
   Link("10", 0), Link("11", 0)}

SeedChoices == {Missing, PyNone, IntV(89898989)}

CfgChoices == {Missing, IntV(7), FloatV(58), FloatV(1), StrV("7")}

\* one target node of type class_type among nodes it can link to: a loader,
\* a node of a type no rule knows, a node with no type, a null and an empty one
VarietyGraph(class_type, model, seed, cfg) == DictV(<<
  <<"3", Node(class_type,
              Opt("model", model) \o Opt("seed", seed) \o Opt("cfg", cfg)
              \o Opt("strength_model", cfg)
              \o << <<"noise_seed", IntV(3)>>, <<"lora_name", StrV("detail.safetensors")>>,
                    <<"sampler_name", StrV("euler")>> >>)>>,
  <<"4", Node("CheckpointLoaderSimple", << <<"ckpt_name", StrV("base.safetensors")>> >>)>>,
  <<"8", Node("SaveImage", << <<"images", Link("3", 0)>> >>)>>,
  <<"9", DictV(<< <<"inputs", EmptyDict>> >>)>>,
  <<"10", PyNone>>,
  <<"11", EmptyDict>> >>)

VarietyGraphs ==
  {VarietyGraph(t, m, sd, c) :
     t \in TargetTypes, m \in ModelChoices, sd \in SeedChoices, c \in CfgChoices}

\* a sampler whose model input links to node 4, which is entry
LinkedEntryGraph(entry) == DictV(<<
  <<"3", Node("KSampler", << <<"model", Link("4", 0)>>, <<"seed", IntV(1)>> >>)>>,
  <<"4", entry>> >>)

\* entries for node 4 that are no objects
OddEntries ==
  {IntV(5), IntV(0), FloatV(4), StrV("x"), StrV("class_type"), ListV(<<>>),
   ListV(<<StrV("class_type")>>)}

\* a node whose "inputs" is the value inputs
RawNode(class_type, inputs) ==
  DictV(<< <<"inputs", inputs>>, <<"class_type", StrV(class_type)>> >>)

OddInputs == {PyNone, IntV(5), ListV(<<>>), ListV(<<StrV("model")>>), StrV("model"), StrV("zz")}

MalformedGraphs ==
  {LinkedEntryGraph(e) : e \in OddEntries}
  \cup {DictV(<< <<"3", RawNode("KSampler", i)>> >>) : i \in OddInputs}
  \cup {LinkedEntryGraph(RawNode("CheckpointLoaderSimple", i)) : i \in OddInputs}
  \cup {DictV(<< <<"3", Node("KSampler", << <<"latent_image", Link("5", 0)>>,
                                            <<"seed", IntV(1)>> >>)>>,
                 <<"5", RawNode("EmptyLatentImage", i)>> >>) : i \in OddInputs}
  \cup {DictV(<< <<"x", IntV(5)>>,
                 <<"3", DictV(<< <<"class_type", IntV(1)>>, <<"inputs", EmptyDict>> >>)>>,
                 <<"12", Node("KSampler", << <<"seed", IntV(2)>> >>)>> >>),
        OddWrapGraph}

\* the values of an input of a node with a formatting rule: left out, a
\* number, a text, null, a link to a node of a type no rule knows, a link
\* into a cycle, a link to no node
FieldChoices ==
  {Missing, IntV(512), StrV("768"), PyNone, Link("8", 0), Link("c1", 0), Link("99", 0)}

\* a sampler whose latent_image is the output of an EmptyLatentImage node
\* with these width and height inputs
FormatFieldGraph(width, height) == DictV(<<
  <<"3", Node("KSampler", << <<"latent_image", Link("5", 0)>>, <<"seed", IntV(1)>> >>)>>,
  <<"5", Node("EmptyLatentImage", Opt("width", width) \o Opt("height", height))>>,
  <<"c1", Node("ModelSamplingFlux", << <<"model", Link("c1", 0)>> >>)>>,
  <<"8", Node("SaveImage", <<>>)>> >>)

FormatFieldGraphs == {FormatFieldGraph(w, h) : w \in FieldChoices, h \in FieldChoices}

NoTargetGraphs ==
  {DictV(<< <<"4", Node("CheckpointLoaderSimple",
                        << <<"ckpt_name", StrV("base.safetensors")>> >>)>> >>),
   DictV(<< <<"4", Node("ModelSamplingFlux", << <<"model", StrV("x")>>,
                                                <<"seed", IntV(4)>> >>)>>,
            <<"8", Node("SaveImage", << <<"images", Link("4", 0)>> >>)>> >>),
   DictV(<< <<"9", DictV(<< <<"inputs", EmptyDict>> >>)>>, <<"x", IntV(5)>> >>),
   DictV(<< <<"5", Node("ksampler", << <<"seed", IntV(4)>> >>)>> >>)}

MultiTargetGraphs ==
  {DictV(<< <<"3", Node("KSampler", << <<"seed", IntV(1)>>, <<"steps", IntV(20)>> >>)>>,
            <<"12", Node("KSampler", << <<"seed", IntV(2)>>, <<"steps", IntV(20)>> >>)>> >>),
   DictV(<< <<"12", Node("KSampler", << <<"seed", IntV(2)>>, <<"steps", IntV(20)>> >>)>>,
            <<"3", Node("KSampler", << <<"seed", IntV(1)>>, <<"steps", IntV(20)>> >>)>> >>),
   DictV(<< <<"3", Node("KSampler", << <<"seed", IntV(1)>>, <<"model", Link("14", 0)>> >>)>>,
            <<"13", Node("KSamplerAdvanced", << <<"noise_seed", IntV(2)>> >>)>>,
            <<"14", Node("LoraLoader", << <<"lora_name", StrV("detail.safetensors")>>,
                                          <<"strength_model", FloatV(6)>>,
                                          <<"model", Link("4", 0)>> >>)>>,
            <<"4", Node("CheckpointLoaderSimple",
                        << <<"ckpt_name", StrV("base.safetensors")>> >>)>> >>)}

\* three samplers, each with its own seed
SeedsGraph(a, b, c) == DictV(<<
  <<"1", Node("KSampler", << <<"seed", IntV(a)>> >>)>>,
  <<"2", Node("KSampler", << <<"seed", IntV(b)>> >>)>>,
  <<"3", Node("KSampler", << <<"seed", IntV(c)>> >>)>> >>)

RepeatedTargetGraphs == {SeedsGraph(a, b, c) : a \in 1..2, b \in 1..2, c \in 1..2}

\* a sampler whose model input comes, through one pass-through node, from
\* the sampler's own output, which its rule takes from latent_image
LoopbackGraph == DictV(<<
  <<"3", Node("KSampler", << <<"model", Link(PassId(1), 0)>>,
                             <<"latent_image", StrV("1024 x 1024")>> >>)>>,
  <<PassId(1), Node("ModelSamplingFlux", << <<"model", Link("3", 0)>> >>)>> >>)

PromptGraphs ==
  {RefGraph, WrappedRefGraph, EmptyDict, LoopbackGraph}
  \cup {ChainGraph(n, end) : n \in 0..MaxChain, end \in ChainLiterals}
  \cup {CycleGraph(n) : n \in 1..MaxChain}
  \cup {LengthGraph(len) : len \in ProbeLens}
  \cup {FormattedLengthGraph(len) : len \in ProbeLens}
  \cup VarietyGraphs \cup MalformedGraphs \cup NoTargetGraphs \cup MultiTargetGraphs
  \cup FormatFieldGraphs \cup RepeatedTargetGraphs

PromptFields == {Absent, NonStr, NoBrace, BadJson, DeepJson} \cup {Json(g) : g \in PromptGraphs}

PromptFieldsFew ==
  {Absent, BadJson, Json(RefGraph), Json(LengthGraph(MaxValLen + 1)),
   Json(LinkedEntryGraph(IntV(5))),
   Json(DictV(<< <<"4", Node("CheckpointLoaderSimple",
                             << <<"ckpt_name", StrV("base.safetensors")>> >>)>> >>))}

Primitive(title, widgets_values) ==
  DictV(<< <<"type", StrV("PrimitiveNode")>>, <<"title", StrV(title)>>,
           <<"widgets_values", widgets_values>> >>)

UiNodes ==
  {Primitive("positive", ListV(<<StrV("cats")>>)),
   Primitive("positive", ListV(<<StrV("dogs"), StrV("unused")>>)),
   Primitive("positive", ListV(<<StrV("")>>)),
   Primitive("positive", ListV(<<>>)),
   Primitive("positive", ListV(<<IntV(5)>>)),
   Primitive("positive", ListV(<<StrV(Rep("u", MaxValLen + LenSlack))>>)),
   Primitive("positive", StrV("cats")),
   Primitive("negative", ListV(<<StrV("blurry")>>)),
   Primitive("negative", ListV(<<PyNone>>)),
   Primitive("Model", ListV(<<StrV("other")>>)),
   DictV(<< <<"type", StrV("PrimitiveNode")>>, <<"title", StrV("positive")>> >>),
   DictV(<< <<"type", StrV("Note")>>, <<"title", StrV("positive")>>,
            <<"widgets_values", ListV(<<StrV("a note")>>)>> >>),
   EmptyDict,
   IntV(7)}

RECURSIVE NodeLists(_)
NodeLists(n) ==
  IF n = 0 THEN {<<>>}
  ELSE LET shorter == NodeLists(n - 1)
       IN shorter \cup {Append(l, u) : l \in {x \in shorter : Len(x) = n - 1}, u \in UiNodes}

UiGraph(nodes) == DictV(<< <<"nodes", ListV(nodes)>> >>)

WorkflowFields ==
  {Absent, NonStr, NoBrace, BadJson, DeepJson, Json(EmptyDict),
   Json(DictV(<< <<"nodes", StrV("none")>>, <<"version", IntV(1)>> >>))}
  \cup {Json(UiGraph(l)) : l \in NodeLists(MaxUiNodes)}

WorkflowFieldsFew ==
  {Absent, Json(UiGraph(<<Primitive("positive", ListV(<<StrV("cats")>>)),
                          Primitive("negative", ListV(<<StrV("blurry")>>))>>))}

Inputs ==
  [prompt : PromptFields, workflow : WorkflowFieldsFew]
  \cup [prompt : PromptFieldsFew, workflow : WorkflowFields]

\* the metadata maps of a session of several calls
SessionInputs ==
  [prompt : {Absent, BadJson, DeepJson, Json(RefGraph)},
   workflow : {Absent, NoBrace,
               Json(UiGraph(<<Primitive("Model", ListV(<<StrV("other")>>)),
                              Primitive("positive", ListV(<<StrV("cats")>>))>>)),
               Json(UiGraph(<<IntV(7)>>))}]

---------------------------------------------------------------------------
(* Specifications *)

\* the locals of a call as the def's entry leaves them
FreshLocals ==
  /\ prompt_graph = EmptyDict
  /\ workflow_graph = EmptyDict
  /\ target_node_instances = <<>>
  /\ results_by_type = [field_type \in FieldTypes |-> <<>>]
  /\ extracted_params = <<>>
  /\ final = EmptyResult
  /\ failure = ""

\* main.py lines 168-172: the browser as ImageBrowser.__init__ leaves it
BrowserConstructed ==
  /\ images_data = <<>>
  /\ image_widgets = <<>>
  /\ image_loader_thread = 0
  /\ loading_columns = 0
  /\ loaders = <<>>
  /\ events = <<>>
  /\ main = "loop"
  /\ directory = ""

\* one call of comfyui_get_data, on any of Inputs
Init ==
  /\ image_info \in Inputs
  /\ pc = "parse_prompt"
  /\ FreshLocals
  /\ result = Pending
  /\ calls = 1
  /\ returned = <<>>
  /\ BrowserConstructed

Next ==
  \/ ParsePrompt
  \/ ParseWorkflow
  \/ CheckEmpty
  \/ FindTargets
  \/ ResolveInputs
  \/ FormatFields
  \/ CapValues
  \/ BuildFinal
  \/ Overlay
  \/ Return
  \/ Except

Spec == Init /\ [][Next]_vars

\* Call with extracted_params kept from the call before, as a list created
\* once outside the def would be
CallKeepingParams ==
  /\ pc \in {"idle", "done", "propagated"}
  /\ calls < MaxCalls
  /\ calls' = calls + 1
  /\ image_info' \in SessionInputs
  /\ pc' = "parse_prompt"
  /\ prompt_graph' = EmptyDict
  /\ workflow_graph' = EmptyDict
  /\ target_node_instances' = <<>>
  /\ results_by_type' = [field_type \in FieldTypes |-> <<>>]
  /\ final' = EmptyResult
  /\ failure' = ""
  /\ result' = Pending
  /\ UNCHANGED <<gui, extracted_params, returned>>

\* lines 360-369: a caller calls comfyui_get_data once the call before is over
Call ==
  /\ pc \in {"idle", "done", "propagated"}
  /\ calls < MaxCalls
  /\ calls' = calls + 1
  /\ image_info' \in SessionInputs
  /\ pc' = "parse_prompt"
  /\ prompt_graph' = EmptyDict
  /\ workflow_graph' = EmptyDict
  /\ target_node_instances' = <<>>
  /\ results_by_type' = [field_type \in FieldTypes |-> <<>>]
  /\ extracted_params' = <<>>
  /\ final' = EmptyResult
  /\ failure' = ""
  /\ result' = Pending
  /\ UNCHANGED <<gui, returned>>

InitCalls ==
  /\ image_info = [prompt |-> Absent, workflow |-> Absent]
  /\ pc = "idle"
  /\ FreshLocals
  /\ result = Pending
  /\ calls = 0
  /\ returned = <<>>
  /\ BrowserConstructed

NextCalls ==
  \/ Call
  \/ ParsePrompt
  \/ ParseWorkflow
  \/ CheckEmpty
  \/ FindTargets
  \/ ResolveInputs
  \/ FormatFields
  \/ CapValues
  \/ BuildFinal
  \/ Overlay
  \/ Return
  \/ Except

SpecCalls == InitCalls /\ [][NextCalls]_vars

---------------------------------------------------------------------------
(* The image browser of main.py: load_images, the ImageLoader thread and the
   slots its signals are connected to. The signals are emitted in the
   loader's thread and the browser lives in the main thread, so every
   emission is queued for the main thread's event loop. *)

\* the directories the user selects, the image files walked in one of them
\* and the load_images calls of a session
Directories == {"D1", "D2"}

MaxFiles == 2

MaxLoads == 2

\* line 316, calculate_columns() for the window of lines 130 and 166
Columns == 4

\* lines 71-75, ImageLoader.__init__, and start(): the thread is about to
\* test self.running for the file at position 1
NewLoader(dir) == [directory |-> dir, running |-> TRUE, at |-> 1, stage |-> "check"]

\* QThread.isRunning(): run() has not returned
isRunning(t) == loaders[t].stage # "finished"

\* lines 200-204: the thread for the directory is created, connected and started
StartLoader(dir) ==
  /\ loading_columns' = Columns
  /\ loaders' = Append(loaders, NewLoader(dir))
  /\ image_loader_thread' = Len(loaders) + 1
  /\ main' = "loop"
  /\ UNCHANGED events

\* lines 188-199: load_images(dir) called by select_directory from the event
\* loop: the grid and images_data are cleared; a loader still running is
\* told to stop and waited for, else the new loader is started at once
LoadImages ==
  /\ main = "loop"
  /\ Len(loaders) < MaxLoads
  /\ directory' \in Directories
  /\ images_data' = <<>>
  /\ image_widgets' = <<>>
  /\ IF image_loader_thread # 0 /\ isRunning(image_loader_thread)
     THEN /\ loaders' = [loaders EXCEPT ![image_loader_thread].running = FALSE]
          /\ main' = "wait"
          /\ UNCHANGED <<image_loader_thread, loading_columns, events>>
     ELSE StartLoader(directory')
  /\ UNCHANGED core

\* line 198: wait() returns once the loader's run() has returned; lines 200-204
WaitReturns ==
  /\ main = "wait"
  /\ ~isRunning(image_loader_thread)
  /\ StartLoader(directory)
  /\ UNCHANGED <<core, images_data, image_widgets, directory>>

\* lines 80-85: the test of self.running before the next file, the loops
\* left when it is false or no file remains
LoaderCheck(t) ==
  /\ loaders[t].stage = "check"
  /\ loaders' = [loaders EXCEPT ![t].stage =
                   IF loaders[t].running /\ loaders[t].at <= MaxFiles
                   THEN "file" ELSE "leave"]
  /\ UNCHANGED <<core, images_data, image_widgets, image_loader_thread, loading_columns,
                 events, main, directory>>

\* lines 87-117: the file is read and image_loaded is emitted with its record
LoaderEmit(t) ==
  /\ loaders[t].stage = "file"
  /\ events' = Append(events, [signal |-> "image_loaded", sender |-> t,
                               path |-> <<loaders[t].directory, loaders[t].at>>])
  /\ loaders' = [loaders EXCEPT ![t].at = @ + 1, ![t].stage = "check"]
  /\ UNCHANGED <<core, images_data, image_widgets, image_loader_thread, loading_columns,
                 main, directory>>

\* lines 87-95 and 118-119: a file that is no image, or cannot be read, is
\* passed over
LoaderSkip(t) ==
  /\ loaders[t].stage = "file"
  /\ loaders' = [loaders EXCEPT ![t].at = @ + 1, ![t].stage = "check"]
  /\ UNCHANGED <<core, images_data, image_widgets, image_loader_thread, loading_columns,
                 events, main, directory>>

\* line 121: finished is emitted and run() returns
LoaderFinish(t) ==
  /\ loaders[t].stage = "leave"
  /\ events' = Append(events, [signal |-> "finished", sender |-> t, path |-> <<>>])
  /\ loaders' = [loaders EXCEPT ![t].stage = "finished"]
  /\ UNCHANGED <<core, images_data, image_widgets, image_loader_thread, loading_columns,
                 main, directory>>

\* lines 210-243: the event loop delivers a queued image_loaded
add_image_to_grid ==
  /\ main = "loop"
  /\ events # <<>>
  /\ Head(events).signal = "image_loaded"
  /\ images_data' = Append(images_data, Head(events).path)
  /\ image_widgets' = Append(image_widgets, Head(events).path)
  /\ events' = Tail(events)
  /\ UNCHANGED <<core, image_loader_thread, loading_columns, loaders, main, directory>>

\* lines 206-208: the event loop delivers a queued finished
on_loading_finished ==
  /\ main = "loop"
  /\ events # <<>>
  /\ Head(events).signal = "finished"
  /\ loading_columns' = 0
  /\ events' = Tail(events)
  /\ UNCHANGED <<core, images_data, image_widgets, image_loader_thread, loaders, main,
                 directory>>

InitGui ==
  /\ image_info = [prompt |-> Absent, workflow |-> Absent]
  /\ pc = "idle"
  /\ FreshLocals
  /\ result = Pending
  /\ calls = 0
  /\ returned = <<>>
  /\ BrowserConstructed

NextGui ==
  \/ LoadImages
  \/ WaitReturns
  \/ \E t \in 1..Len(loaders) : LoaderCheck(t)
  \/ \E t \in 1..Len(loaders) : LoaderEmit(t)
  \/ \E t \in 1..Len(loaders) : LoaderSkip(t)
  \/ \E t \in 1..Len(loaders) : LoaderFinish(t)
  \/ add_image_to_grid
  \/ on_loading_finished

SpecGui == InitGui /\ [][NextGui]_vars

---------------------------------------------------------------------------
(* Properties of one call (Spec) *)

\* the Result a finished call returned
Result == result[2]

HasEntry(d, key, val) == key \in DOMAIN d /\ d[key] = val

\* the node list of the UI graph a workflow field parses to, empty when it
\* parses to none
UiNodeList(field) ==
  IF field[1] = "json" /\ has_node_list(field[2])
  THEN Val(DictGet(field[2], "nodes"))
  ELSE <<>>

\* the executable graph a prompt field parses to
GraphOf(field) == IF field[1] = "json" THEN unwrap_prompt(field[2]) ELSE EmptyDict

\* t occurs in s
ContainsText(s, t) ==
  \E i \in 1..(Len(s) - Len(t) + 1) : SubSeq(s, i, i + Len(t) - 1) = t

\* C1: on a metadata map whose prompt field holds the reference graph and
\* whose workflow field supplies no UI node, the call returns a Result with
\* Model, Prompt, Negative Prompt, Size and Seed as the example states them
C1_ReferenceExample ==
  (/\ pc = "done"
   /\ image_info.prompt = Json(RefGraph)
   /\ UiNodeList(image_info.workflow) = <<>>)
  => /\ result[1] = "returned"
     /\ HasEntry(Result, "Model", "sd_xl_base_1.0.safetensors")
     /\ HasEntry(Result, "Prompt", "beautiful landscape painting, epic composition")
     /\ HasEntry(Result, "Negative Prompt", "ugly, deformed")
     /\ HasEntry(Result, "Size", "1024 x 1024")
     /\ HasEntry(Result, "Seed", "89898989")

C1_Witness ==
  /\ pc = "done"
  /\ image_info = [prompt |-> Json(RefGraph), workflow |-> Absent]
  /\ result[1] = "returned"
  /\ HasEntry(Result, "Size", "1024 x 1024")
  /\ HasEntry(Result, "Model", "sd_xl_base_1.0.safetensors")

\* C2: every value of a returned Result is at most 1024 characters long,
\* whether the executable graph or the overlay wrote it
C2_ValuesWithinCap ==
  (pc = "done" /\ result[1] = "returned")
  => \A key \in DOMAIN Result : Len(Result[key]) <= 1024

\* a value stored with the lengths up to limit left as they are and a longer
\* one cut to its first 1020 characters followed by "..."
StoredForm(v, limit) == IF Len(v) <= limit THEN v ELSE SubSeq(v, 1, 1020) \o "..."

\* every formatted value has its entry in extracted_params, in its stored
\* form, and the Result built from them holds one of them for the field
FormattedValuesStored(limit) ==
  pc = "overlay"
  => \A field_type \in FieldTypes :
       LET values == results_by_type[field_type]
       IN /\ \A j \in 1..Len(values) :
               \E p \in 1..Len(extracted_params) :
                 extracted_params[p] =
                   [type |-> pretty(field_type), val |-> StoredForm(values[j], limit)]
          /\ values # <<>>
             => /\ pretty(field_type) \in DOMAIN final
                /\ \E j \in 1..Len(values) :
                     final[pretty(field_type)] = StoredForm(values[j], limit)

\* C3, as amended: a formatted value of length L is stored unchanged when
\* L <= 1023, and as its first 1020 characters followed by "..." (1023
\* characters) when L >= 1024
C3_StoredUpTo1023 == FormattedValuesStored(1023)

\* C3, as written: unchanged when L <= 1024, first 1020 characters and "..."
\* when L > 1024
C3_StoredUpTo1024 == FormattedValuesStored(1024)

C3_Witness ==
  /\ pc = "overlay"
  /\ \E j \in 1..Len(results_by_type["pos_prompts"]) :
       Len(results_by_type["pos_prompts"][j]) = 1024
  /\ HasEntry(final, "Prompt", Rep("a", 1020) \o "...")

\* node is a PrimitiveNode titled title whose widgets_values list has an element
IsHolder(node, title) ==
  /\ Tag(node) = "dict"
  /\ DictGetOr(node, "type", PyNone) = StrV("PrimitiveNode")
  /\ DictGetOr(node, "title", PyNone) = StrV(title)
  /\ DictHas(node, "widgets_values")
  /\ Tag(DictGet(node, "widgets_values")) = "list"
  /\ Len(Val(DictGet(node, "widgets_values"))) >= 1

FirstWidgetText(node) == PyStr(Val(DictGet(node, "widgets_values"))[1])

\* a holder whose first widget value has a non-empty string form
IsFilledHolder(node, title) == IsHolder(node, title) /\ FirstWidgetText(node) # ""

\* the Result holds under key the first widget value of every holder titled title
ForcedByEvery(title, key) ==
  \A i \in 1..Len(UiNodeList(image_info.workflow)) :
    IsHolder(UiNodeList(image_info.workflow)[i], title)
    => HasEntry(Result, key, FirstWidgetText(UiNodeList(image_info.workflow)[i]))

\* the Result holds under key the first widget value of the last filled
\* holder titled title
ForcedByLastFilled(title, key) ==
  \A i \in 1..Len(UiNodeList(image_info.workflow)) :
    (/\ IsFilledHolder(UiNodeList(image_info.workflow)[i], title)
     /\ \A j \in (i + 1)..Len(UiNodeList(image_info.workflow)) :
          ~IsFilledHolder(UiNodeList(image_info.workflow)[j], title))
    => HasEntry(Result, key, FirstWidgetText(UiNodeList(image_info.workflow)[i]))

HasNoTarget(graph) ==
  \A i \in 1..Len(Val(graph)) :
    (Tag(Val(graph)[i][2]) = "dict" /\ DictHas(Val(graph)[i][2], "class_type"))
    => \A t \in TargetTypes : DictGet(Val(graph)[i][2], "class_type") # StrV(t)

\* C6, as amended: for an executable graph none of whose nodes matches a
\* Target Rule the Result holds nothing but what the overlay wrote, Prompt
\* and Negative Prompt, and is empty when the UI graph has no node list
C6_NoTargetOnlyOverlay ==
  (/\ pc = "done"
   /\ image_info.prompt[1] = "json"
   /\ HasNoTarget(GraphOf(image_info.prompt)))
  => /\ result[1] = "returned"
     /\ DOMAIN Result \subseteq {"Prompt", "Negative Prompt"}
     /\ UiNodeList(image_info.workflow) = <<>> => Result = EmptyResult

\* C6, as written: such a graph gives the empty Result; stated for the
\* graphs that have a node
C6_NoTargetEmpty ==
  (/\ pc = "done"
   /\ image_info.prompt[1] = "json"
   /\ GraphOf(image_info.prompt) # EmptyDict
   /\ HasNoTarget(GraphOf(image_info.prompt)))
  => result = Returned(EmptyResult)

C6_Witness ==
  /\ pc = "done"
  /\ image_info.prompt[1] = "json"
  /\ GraphOf(image_info.prompt) # EmptyDict
  /\ HasNoTarget(GraphOf(image_info.prompt))
  /\ Result = SetKey(EmptyResult, "Prompt", "cats")

IsDangling(link, graph) ==
  \/ ~DictHas(graph, Val(Val(link)[1]))
  \/ ~(/\ Tag(DictGet(graph, Val(Val(link)[1]))) = "dict"
       /\ DictHas(DictGet(graph, Val(Val(link)[1])), "class_type"))

\* the required inputs of target node n that are dangling links
DanglingInputs(n) ==
  LET inputs == DictGetOr(target_node_instances[n].details, "inputs", EmptyDict)
      required == target_node_instances[n].required_inputs
  IN {required[i] : i \in {k \in 1..Len(required) :
                             /\ Tag(inputs) = "dict"
                             /\ DictHas(inputs, required[k])
                             /\ is_comfy_link(DictGet(inputs, required[k]))
                             /\ IsDangling(DictGet(inputs, required[k]), prompt_graph)}}

\* C8: a required input that links to an absent node, or to a node with no
\* type name, resolves without an exception to a string that contains the
\* node id, and the resolving of the other inputs goes on
C8_DanglingLinkGivesSentinel ==
  (pc \in {"format_fields", "except"} /\ failure \in {"", "resolve_inputs"})
  => \A n \in 1..Len(target_node_instances) :
       \A key \in DanglingInputs(n) :
         /\ pc = "format_fields"
         /\ DictHas(target_node_instances[n].resolved_params, key)
         /\ Tag(DictGet(target_node_instances[n].resolved_params, key)) = "str"
         /\ ContainsText(
              Val(DictGet(target_node_instances[n].resolved_params, key)),
              Val(Val(DictGet(DictGetOr(target_node_instances[n].details, "inputs",
                                        EmptyDict), key))[1]))

\* C9: no exception leaves a call, and a call in which something failed
\* returns exactly the empty Result
C9_NothingPropagates ==
  /\ result[1] # "raised"
  /\ (pc = "done" /\ failure # "") => result = Returned(EmptyResult)

---------------------------------------------------------------------------
(* Properties of a session of calls (SpecCalls) *)

OverlayKeys == {"Prompt", "Negative Prompt"}

\* two Results with the same entries but for Prompt and Negative Prompt
SameButOverlayKeys(d, e) ==
  /\ DOMAIN d \ OverlayKeys = DOMAIN e \ OverlayKeys
  /\ \A key \in DOMAIN d \ OverlayKeys : d[key] = e[key]

\* C5, as amended: two calls on the same executable graph and different UI
\* graphs that both return without a failure have the same entries but for
\* Prompt and Negative Prompt
C5_OverlayOnlyPromptKeys ==
  \A i, j \in 1..Len(returned) :
    (/\ returned[i].input.prompt = returned[j].input.prompt
     /\ returned[i].result[1] = "returned" /\ returned[i].failure = ""
     /\ returned[j].result[1] = "returned" /\ returned[j].failure = "")
    => SameButOverlayKeys(returned[i].result[2], returned[j].result[2])

\* C5, as written: any two calls on the same executable graph that return
C5_AnyUiGraph ==
  \A i, j \in 1..Len(returned) :
    (/\ returned[i].input.prompt = returned[j].input.prompt
     /\ returned[i].result[1] = "returned"
     /\ returned[j].result[1] = "returned")
    => SameButOverlayKeys(returned[i].result[2], returned[j].result[2])

C5_Witness ==
  \E i, j \in 1..Len(returned) :
    /\ returned[i].input.prompt = Json(RefGraph)
    /\ returned[j].input.prompt = Json(RefGraph)
    /\ returned[i].input.workflow = Absent
    /\ UiNodeList(returned[j].input.workflow) # <<>>
    /\ returned[i].failure = "" /\ returned[j].failure = ""
    /\ HasEntry(returned[j].result[2], "Prompt", "cats")
    /\ HasEntry(returned[i].result[2], "Prompt",
                "beautiful landscape painting, epic composition")
    /\ HasEntry(returned[j].result[2], "Seed", "89898989")

\* C10: two calls on the same metadata map end the same way, with the same
\* Result, whatever calls were made before and between them
C10_SameInputSameResult ==
  \A i, j \in 1..Len(returned) :
    returned[i].input = returned[j].input => returned[i].result = returned[j].result

C10_Witness ==
  \E i, j, k \in 1..Len(returned) :
    /\ i < k /\ k < j
    /\ returned[i].input = returned[j].input
    /\ returned[k].input # returned[i].input
    /\ returned[k].result[2] # EmptyResult
    /\ returned[i].input.prompt = Absent
    /\ returned[j].result = Returned(SetKey(EmptyResult, "Prompt", "cats"))

---------------------------------------------------------------------------
(* Further properties of one call (Spec) *)

\* the UI graph a workflow field parses to
UiGraphOf(field) == IF field[1] = "json" THEN field[2] ELSE EmptyDict

\* C11: once parsed, the executable graph and the UI graph stay what the
\* fields of the metadata map parse to through every step of the call, and
\* every node a target instance refers to stays the node of the graph
C11_GraphsNotModified ==
  /\ pc # "parse_prompt" => prompt_graph = GraphOf(image_info.prompt)
  /\ (pc \notin {"parse_prompt", "parse_workflow"} /\ result[1] # "raised")
     => workflow_graph = UiGraphOf(image_info.workflow)
  /\ \A n \in 1..Len(target_node_instances) :
       /\ DictHas(prompt_graph, target_node_instances[n].node_id)
       /\ target_node_instances[n].details =
            DictGet(prompt_graph, target_node_instances[n].node_id)

C11_Witness ==
  /\ pc = "done"
  /\ image_info.prompt = Json(RefGraph)
  /\ UiNodeList(image_info.workflow) # <<>>
  /\ prompt_graph = RefGraph
  /\ Len(target_node_instances) = 1
  /\ DictGet(target_node_instances[1].resolved_params, "model")
       = StrV("sd_xl_base_1.0.safetensors")
  /\ DictGet(Val(DictGet(prompt_graph, "3"))[1][2], "model") = Link("4", 0)

\* C13: a link on a cycle of pass-through nodes never resolves to a value:
\* the resolver goes on into new frames until the interpreter has none left,
\* whatever their number, and the call ends in the except block with the
\* empty Result
C13_CycleNeverResolves ==
  \A n \in 1..MaxChain :
    image_info.prompt = Json(CycleGraph(n))
    => /\ pc = "resolve_inputs"
          => resolve_bypasses(Link(PassId(1), 0), prompt_graph) = Raise("RecursionError")
       /\ pc \in {"format_fields", "cap_values", "build_final", "overlay", "return",
                  "except", "done"}
          => /\ failure = "resolve_inputs"
             /\ ~DictHas(target_node_instances[1].resolved_params, "model")
             /\ pc = "done" => result = Returned(EmptyResult)

C13_Witness ==
  /\ pc = "done"
  /\ image_info.prompt = Json(CycleGraph(MaxChain))
  /\ failure = "resolve_inputs"
  /\ result = Returned(EmptyResult)

\* the node a link goes to is an object with a type name whose propagation
\* rule has a formatting operation for the link's slot
IsFormatLink(link, graph) ==
  /\ is_comfy_link(link)
  /\ DictHas(graph, Val(Val(link)[1]))
  /\ Tag(DictGet(graph, Val(Val(link)[1]))) = "dict"
  /\ DictHas(DictGet(graph, Val(Val(link)[1])), "class_type")
  /\ LET node == DictGet(graph, Val(Val(link)[1]))
         rule == resolve_class_type(DictGet(node, "class_type"),
                                    comfy_nodes_propagation_data)
     IN /\ rule # 0
        /\ Val(Val(link)[2]) \in DOMAIN comfy_nodes_propagation_data[rule].mapping
        /\ Tag(comfy_nodes_propagation_data[rule].mapping[Val(Val(link)[2])]) = "op"
        /\ Tag(DictGetOr(node, "inputs", EmptyDict)) = "dict"

\* the formatting operation of such a link, and the inputs of its node
FormatOpOf(link, graph) ==
  Val(comfy_nodes_propagation_data[
        resolve_class_type(DictGet(DictGet(graph, Val(Val(link)[1])), "class_type"),
                           comfy_nodes_propagation_data)].mapping[Val(Val(link)[2])])

FormatInputsOf(link, graph) ==
  DictGetOr(DictGet(graph, Val(Val(link)[1])), "inputs", EmptyDict)

\* what a needed field resolves to on its own, <<"absent", 0>> for a field
\* the node's inputs lack
FieldOutcome(link, graph, key) ==
  IF DictHas(FormatInputsOf(link, graph), key)
  THEN resolve_frame(DictGet(FormatInputsOf(link, graph), key), graph, 2)
  ELSE <<"absent", 0>>

SomeFieldAbsentOrNull(link, graph) ==
  \E i \in 1..Len(FormatOpOf(link, graph).keys_to_use) :
    Tag(FieldOutcome(link, graph, FormatOpOf(link, graph).keys_to_use[i]))
      \in {"absent", "none"}

SomeFieldRaises(link, graph) ==
  \E i \in 1..Len(FormatOpOf(link, graph).keys_to_use) :
    IsRaise(FieldOutcome(link, graph, FormatOpOf(link, graph).keys_to_use[i]))

\* the template on the outcomes of all the fields
TemplateOnFields(link, graph) ==
  StrFormat(FormatOpOf(link, graph).operation_input,
            DictV([i \in 1..Len(FormatOpOf(link, graph).keys_to_use) |->
                     <<FormatOpOf(link, graph).keys_to_use[i],
                       FieldOutcome(link, graph, FormatOpOf(link, graph).keys_to_use[i])>>]))

Reversed(seq) == [i \in 1..Len(seq) |-> seq[Len(seq) + 1 - i]]

\* the formatting rule with its fields evaluated in the opposite order
ResolvedBackwards(link, graph) ==
  format_resolved(
    resolve_keys(FormatInputsOf(link, graph),
                 Reversed(FormatOpOf(link, graph).keys_to_use), 1, EmptyDict, graph, 1),
    FormatOpOf(link, graph))

\* the required inputs of target node n that are such links
FormatLinkInputs(n) ==
  LET inputs == DictGetOr(target_node_instances[n].details, "inputs", EmptyDict)
      required == target_node_instances[n].required_inputs
  IN {required[i] : i \in {k \in 1..Len(required) :
                             /\ Tag(inputs) = "dict"
                             /\ DictHas(inputs, required[k])
                             /\ IsFormatLink(DictGet(inputs, required[k]), prompt_graph)}}

\* null exactly when a field is absent or null, the template on the fields
\* otherwise, and the same with the fields taken in the opposite order
NullIffFieldMissing(link, graph) ==
  /\ resolve_bypasses(link, graph) = PyNone <=> SomeFieldAbsentOrNull(link, graph)
  /\ ~SomeFieldAbsentOrNull(link, graph)
     => /\ Tag(resolve_bypasses(link, graph)) = "str"
        /\ ~SomeFieldRaises(link, graph)
           => resolve_bypasses(link, graph) = TemplateOnFields(link, graph)
  /\ ResolvedBackwards(link, graph) = resolve_bypasses(link, graph)

\* the inputs of the target nodes resolved, or the resolving ended by an exception
InputsResolved ==
  \/ pc = "format_fields"
  \/ pc = "except" /\ failure = "resolve_inputs"

LinkOf(n, key) == DictGet(DictGetOr(target_node_instances[n].details, "inputs", EmptyDict), key)

\* C14, as amended: when the resolving of none of the fields raises, a slot
\* with a formatting rule resolves to null if and only if a field the
\* operation needs is absent from the node's inputs or resolves to null, and
\* to the template on the resolved fields otherwise, in whatever order the
\* fields are evaluated
C14_NullIffFieldMissingUnlessRaise ==
  InputsResolved
  => \A n \in 1..Len(target_node_instances) :
       \A key \in FormatLinkInputs(n) :
         ~SomeFieldRaises(LinkOf(n, key), prompt_graph)
         => /\ NullIffFieldMissing(LinkOf(n, key), prompt_graph)
            /\ pc = "format_fields"
            /\ DictGet(target_node_instances[n].resolved_params, key)
                 = resolve_bypasses(LinkOf(n, key), prompt_graph)

\* C14, as written: the same for every slot with a formatting rule
C14_NullIffFieldMissing ==
  InputsResolved
  => \A n \in 1..Len(target_node_instances) :
       \A key \in FormatLinkInputs(n) :
         NullIffFieldMissing(LinkOf(n, key), prompt_graph)

C14_Witness ==
  /\ pc = "format_fields"
  /\ image_info.prompt = Json(FormatFieldGraph(IntV(512), Link("8", 0)))
  /\ "latent_image" \in FormatLinkInputs(1)
  /\ SomeFieldAbsentOrNull(LinkOf(1, "latent_image"), prompt_graph)
  /\ DictGet(target_node_instances[1].resolved_params, "latent_image") = PyNone

\* the values target node n produces for a field type
NodeValues(n, field_type) ==
  {Val(StrFormat(FormatStrings(field_type)[t], target_node_instances[n].resolved_params)) :
     t \in {s \in 1..Len(FormatStrings(field_type)) :
              ~IsRaise(StrFormat(FormatStrings(field_type)[s],
                                 target_node_instances[n].resolved_params))}}

Producers(field_type) ==
  {n \in 1..Len(target_node_instances) : NodeValues(n, field_type) # {}}

LastProducer(field_type) ==
  CHOOSE n \in Producers(field_type) : \A m \in Producers(field_type) : m <= n

\* the first target node that produces this value for the field type
FirstProducer(field_type, value) ==
  CHOOSE n \in Producers(field_type) :
    /\ value \in NodeValues(n, field_type)
    /\ \A m \in Producers(field_type) : value \in NodeValues(m, field_type) => n <= m

\* a call that returned normally, with an entry of this field type that the
\* overlay has not written, and several target nodes producing values for it
SeveralProduce(field_type) ==
  /\ pc = "done"
  /\ failure = ""
  /\ result[1] = "returned"
  /\ pretty(field_type) \notin OverlayKeys \/ UiNodeList(image_info.workflow) = <<>>
  /\ Cardinality(Producers(field_type)) >= 2

\* C15, as amended: when several target nodes produce values for the same
\* display field, the Result entry is, among the distinct values produced,
\* the one produced for the first time latest in iteration order: a later
\* node wins unless an earlier node already produced its value
C15_LatestNewValueWins ==
  \A field_type \in FieldTypes :
    SeveralProduce(field_type)
    => \E n \in Producers(field_type) :
         \E value \in NodeValues(n, field_type) :
           /\ Result[pretty(field_type)] = StoredForm(value, MaxValLen)
           /\ \A m \in Producers(field_type) :
                \A other \in NodeValues(m, field_type) :
                  FirstProducer(field_type, other) <= FirstProducer(field_type, value)

\* C15, as written: the entry is the value of the last target node that
\* produces one
C15_LastNodeWins ==
  \A field_type \in FieldTypes :
    SeveralProduce(field_type)
    => \E value \in NodeValues(LastProducer(field_type), field_type) :
         Result[pretty(field_type)] = StoredForm(value, MaxValLen)

C15_Witness ==
  /\ SeveralProduce("seeds")
  /\ image_info.prompt = Json(SeedsGraph(1, 2, 1))
  /\ NodeValues(3, "seeds") = {"1"}
  /\ Result["Seed"] = "2"

\* a required input of a target node resolved to null
NullInputs ==
  {<<n, i>> \in (1..Len(target_node_instances)) \X (1..10) :
     /\ i <= Len(target_node_instances[n].required_inputs)
     /\ DictHas(target_node_instances[n].resolved_params,
                target_node_instances[n].required_inputs[i])
     /\ DictGet(target_node_instances[n].resolved_params,
                target_node_instances[n].required_inputs[i]) = PyNone}

\* C16: when a required input of a target node resolves to null, no value
\* of the Result is the text form of null
C16_NoNullText ==
  (pc = "done" /\ result[1] = "returned" /\ NullInputs # {})
  => \A key \in DOMAIN Result : Result[key] # "None"

NodeIds(graph) == {Val(graph)[i][1] : i \in 1..Len(Val(graph))}

\* the input names the rule follows, over all its slots
FollowedKeys(rule) ==
  UNION {IF Tag(comfy_nodes_propagation_data[rule].mapping[slot]) = "str"
         THEN {Val(comfy_nodes_propagation_data[rule].mapping[slot])}
         ELSE IF Tag(comfy_nodes_propagation_data[rule].mapping[slot]) = "op"
         THEN {Val(comfy_nodes_propagation_data[rule].mapping[slot]).keys_to_use[i] :
                 i \in 1..Len(Val(comfy_nodes_propagation_data[rule].mapping[slot]).keys_to_use)}
         ELSE {} :
         slot \in DOMAIN comfy_nodes_propagation_data[rule].mapping}

\* the propagation rule of a node of the graph, 0 when it has none
RuleOf(graph, id) ==
  IF /\ Tag(DictGet(graph, id)) = "dict"
     /\ DictHas(DictGet(graph, id), "class_type")
     /\ Tag(DictGet(DictGet(graph, id), "class_type")) = "str"
     /\ Tag(DictGetOr(DictGet(graph, id), "inputs", EmptyDict)) = "dict"
  THEN resolve_class_type(DictGet(DictGet(graph, id), "class_type"),
                          comfy_nodes_propagation_data)
  ELSE 0

\* the nodes the links followed by the rule of node id lead to
FollowedTo(graph, id) ==
  IF RuleOf(graph, id) = 0 THEN {}
  ELSE {Val(Val(DictGet(DictGet(DictGet(graph, id), "inputs"), key))[1]) :
          key \in {k \in FollowedKeys(RuleOf(graph, id)) :
                     /\ DictHas(DictGet(DictGet(graph, id), "inputs"), k)
                     /\ is_comfy_link(DictGet(DictGet(DictGet(graph, id), "inputs"), k))}}
       \cap NodeIds(graph)

RECURSIVE FollowedWithin(_, _, _)
FollowedWithin(graph, ids, steps) ==
  IF steps = 0 THEN ids
  ELSE FollowedWithin(graph, ids \cup UNION {FollowedTo(graph, id) : id \in ids}, steps - 1)

\* the links followed by the propagation rules form no cycle
FollowedLinksAcyclic(graph) ==
  \A id \in NodeIds(graph) :
    id \notin FollowedWithin(graph, FollowedTo(graph, id), Len(Val(graph)))

\* the call resolve_bypasses(value, graph) needs no more than this many
\* frames of resolve_bypasses, the outermost call counted
WithinFrames(value, graph, frames) ==
  resolve_frame(value, graph, RecursionLimit - frames + 1) # Raise("RecursionError")

\* the values of the required inputs of the target nodes
RequiredValues ==
  {DictGet(DictGet(target_node_instances[p[1]].details, "inputs"),
           target_node_instances[p[1]].required_inputs[p[2]]) :
     p \in {q \in (1..Len(target_node_instances)) \X (1..10) :
              /\ q[2] <= Len(target_node_instances[q[1]].required_inputs)
              /\ Tag(DictGetOr(target_node_instances[q[1]].details, "inputs", EmptyDict))
                   = "dict"
              /\ DictHas(DictGetOr(target_node_instances[q[1]].details, "inputs", EmptyDict),
                         target_node_instances[q[1]].required_inputs[q[2]])}}

\* C17: on a graph in which the links followed by the propagation rules form
\* no cycle, resolve_bypasses ends on every value without exhausting the
\* stack, and the recursive calls nested inside the outermost call are never
\* more than the nodes of the graph
C17_DepthWithinNodes ==
  (InputsResolved /\ Tag(prompt_graph) = "dict" /\ FollowedLinksAcyclic(prompt_graph))
  => \A value \in RequiredValues :
       /\ WithinFrames(value, prompt_graph, Len(Val(prompt_graph)) + 1)
       /\ Len(Val(prompt_graph)) < RecursionLimit
          => resolve_bypasses(value, prompt_graph) # Raise("RecursionError")

C17_Witness ==
  /\ pc = "format_fields"
  /\ image_info.prompt = Json(LoopbackGraph)
  /\ FollowedLinksAcyclic(prompt_graph)
  /\ ~WithinFrames(Link(PassId(1), 0), prompt_graph, Len(Val(prompt_graph)))
  /\ DictGet(target_node_instances[1].resolved_params, "model") = StrV("1024 x 1024")

---------------------------------------------------------------------------
(* Further properties of a session of calls (SpecCalls) *)

\* the field is absent, or a value that json.loads is not given or rejects
IsUnparseable(field) == field[1] \in {"absent", "nonstr", "nobrace", "badjson"}

---------------------------------------------------------------------------
(* Properties of the image browser (SpecGui) *)

\* C18: once load_images has returned, images_data and the grid hold only
\* images found under the directory it was called with
C18_OnlyImagesOfDirectory ==
  (main = "loop" /\ image_loader_thread # 0)
  => /\ \A i \in 1..Len(images_data) :
          images_data[i][1] = loaders[image_loader_thread].directory
     /\ \A i \in 1..Len(image_widgets) :
          image_widgets[i][1] = loaders[image_loader_thread].directory

====
